---- MODULE Spec2Model ----
(***************************************************************************)
(* A model of github.com/steinfletcher/bus: an in-process message bus.     *)
(* Handlers are registered by the type of their second parameter;          *)
(* Publish pushes the message onto the queue of every async handler of     *)
(* the message's type and then calls the sync handlers in order.           *)
(*                                                                         *)
(* Goroutines of the model: the callers (Procs), one Iter goroutine per    *)
(* running handlers.Iter() call, and one worker per async handler.         *)
(***************************************************************************)
EXTENDS Integers, Sequences, FiniteSets, TLC

\* ------------------------------------------------------------ bounds
\* Handlers created by Subscribe/SubscribeAsync in one run.
MaxHandlers == 2
\* Publish calls in one run.
MaxPublish == 2
\* The queue size a caller passes to New(n).
QueueArg == 2
\* Handlers created in one run of an application that is already running.
MaxLateHandlers == 1
\* Handlers created in one run that registers while it publishes.
MaxSnapshotHandlers == 3
\* Publish calls in one run that registers while it publishes.
MaxSnapshotPublish == 1

\* bus.go: const defaultAsyncHandlerQueueSize = 1000
defaultAsyncHandlerQueueSize == 1000

\* The goroutines that call the bus.
Procs == {"p1", "p2"}

\* ------------------------------------------------------------ types
\* The Go types of the model, as reflect sees each: the import path of its
\* package, the package's name, the type's name, whether it is the pointer
\* form. PtrQuery and ValQuery are *GetUserQuery and GetUserQuery of the
\* tests; PtrQuery2 is a *GetUserQuery of a package of the same name at
\* another import path, a type of its own; Context2 is a struct Context of an
\* application package named context.
GoType(path, pkg, name, ptr) == [path |-> path, pkg |-> pkg, name |-> name, ptr |-> ptr]

GoTypes ==
    [Context   |-> GoType("context", "context", "Context", FALSE),
     Context2  |-> GoType("example.com/app/context", "context", "Context", FALSE),
     string    |-> GoType("", "", "string", FALSE),
     int       |-> GoType("", "", "int", FALSE),
     PtrQuery  |-> GoType("github.com/steinfletcher/bus_test", "bus_test", "GetUserQuery", TRUE),
     ValQuery  |-> GoType("github.com/steinfletcher/bus_test", "bus_test", "GetUserQuery", FALSE),
     PtrQuery2 |-> GoType("example.com/app/bus_test", "bus_test", "GetUserQuery", TRUE)]

\* reflect.Type.String(): "*" for a pointer, then the package's name (not its
\* import path), a dot and the type's name; a predeclared type has no package.
\* Go documents that this string is not unique among types.
TypeString(t) ==
    LET T == GoTypes[t]
    IN (IF T.ptr THEN "*" ELSE "") \o (IF T.pkg = "" THEN T.name ELSE T.pkg \o "." \o T.name)

\* The messages' types.
MsgTypes == {"PtrQuery", "ValQuery", "PtrQuery2"}
\* The context and the message of the n-th Publish call: every call passes a
\* context and a message of its own.
Ctx(n) == [ctx |-> n]
Msg(t, n) == [type |-> t, id |-> n]

\* ------------------------------------------------------------ errors
ErrHandlerNotFound == "handler not found"
ErrSome            == "some error"
ErrArgs            == "invalid number of handler arguments. Must be context.Context followed by a struct"
ErrFirstArg        == "first argument must be context.Context"
ErrNotFunc(kind)   == "'" \o kind \o "' is not a function"
\* What a call of the bus has not returned yet / returned without an error /
\* left by a panic.
None  == "none"
Nil   == "nil"
Panic == "panic"
\* panic(err): what a call left by a panic with an error value shows.
PanicWith(err) == "panic: " \o err

\* ------------------------------------------------------------ handler functions
\* The values passed to Subscribe, each with what reflect.TypeOf says of it
\* (its kind, its parameter types, its result types) and what its body
\* returns.
Fn(kind, in, out, ret) == [kind |-> kind, in |-> in, out |-> out, ret |-> ret]

FnTable ==
    [notFunc |-> Fn("string", <<>>, <<>>, Nil),                                 \* "not a func"
     oneArg  |-> Fn("func", <<"Context">>, <<>>, Nil),                          \* func(ctx) {}
     noCtx   |-> Fn("func", <<"string", "string">>, <<>>, Nil),                 \* func(a, b string) {}
     ok      |-> Fn("func", <<"Context", "PtrQuery">>, <<"error">>, Nil),       \* returns nil
     err     |-> Fn("func", <<"Context", "PtrQuery">>, <<"error">>, ErrSome),   \* returns an error
     void    |-> Fn("func", <<"Context", "PtrQuery">>, <<>>, Nil),              \* no result
     val     |-> Fn("func", <<"Context", "ValQuery">>, <<"error">>, Nil),       \* the value form
     three   |-> Fn("func", <<"Context", "PtrQuery", "int">>, <<"error">>, Nil),\* three parameters
     other   |-> Fn("func", <<"Context", "PtrQuery2">>, <<"error">>, Nil),      \* the other package's type
     ctx2    |-> Fn("func", <<"Context2", "PtrQuery">>, <<"error">>, Nil),      \* the application's Context
     once    |-> Fn("func", <<"Context", "PtrQuery">>, <<"error">>, Nil),       \* returns once, see Blocks
     reenter |-> Fn("func", <<"Context", "ValQuery">>, <<"error">>, Nil),       \* publishes, see Reenters
     never   |-> Fn("func", <<"Context", "PtrQuery">>, <<"error">>, Nil)]       \* never returns, see Blocks

Fns == DOMAIN FnTable

\* The n-th invocation of fn never returns: "once" returns from its first
\* invocation and waits for ever in every later one, "never" waits for ever
\* in every one.
Blocks(fn, n) == (fn = "once" /\ n >= 2) \/ fn = "never"

\* The body of fn calls the bus it is registered with before it returns:
\* "reenter" is func(ctx context.Context, q GetUserQuery) error {
\* b.Publish(ctx, "x"); return nil }, and no handler takes a string.
Reenters(fn) == fn = "reenter"

\* The handler functions whose body does nothing but return.
PlainFns == {fn \in Fns : ~Blocks(fn, 2) /\ ~Reenters(fn)}

Kind(fn) == FnTable[fn].kind
In(fn) == FnTable[fn].in
Out(fn) == FnTable[fn].out
Returns(fn) == FnTable[fn].ret

\* ------------------------------------------------------------ state
VARIABLES
    app,        \* the application: its calling goroutines, its handler functions, New's arguments
    queueSize,  \* eventBus.queueSize
    hs,         \* the handler records created so far: [Handler, isAsync, cap]
    queue,      \* queue[h]: handler h's channel, a sequence of params
    items,      \* handlers.items: type name -> sequence of handlers
    lock,       \* handlers' mutex: None, or the caller whose Iter goroutine holds it
    iter,       \* iter[p]: the Iter goroutine of p's running range loop
    pc,         \* pc[p]: where caller p is
    key,        \* key[p]: handlerArgTypeName / msgTypeName
    arg,        \* arg[p]: the fn of p's Subscribe call, running or returned
    pend,       \* pend[p]: the handler Subscribe is about to Add
    params,     \* params[p]: Publish's <<ctx, msg>>
    todo,       \* todo[p]: the handlers left in the inner loop
    result,     \* result[p]: what p's last call returned
    working,    \* working[h]: the params worker h is calling the handler with
    crashed,    \* a goroutine panicked with no recover: the process is gone
    log,        \* history: log[h], the params handler h was invoked with, in order
    done,       \* history: done[h], the params of the invocations of h that have returned
    sent,       \* history: sent[h], the params pushed onto h's queue, in order
    invoked,    \* history: invoked[p], the handlers p's Publish has invoked
    npub        \* history: Publish calls so far

vars == <<app, queueSize, hs, queue, items, lock, iter, pc, key, arg, pend, params, todo,
          result, working, crashed, log, done, sent, invoked, npub>>

NoIter == [st |-> "none", rest |-> {}]

\* No Subscribe call: the caller's last call was a Publish, or none.
NoFn == "none"

\* New(queueSize ...int)
New(args) == IF Len(args) > 0 THEN args[1] ELSE defaultAsyncHandlerQueueSize

\* newHandlers(): an empty map
newHandlers == [k \in {} |-> <<>>]

\* The applications: one goroutine that uses every plain handler function,
\* with New() or New(n); and two concurrent goroutines that use two of them.
\* pre is the async handler of an application that is already running when
\* the run starts, or NoFn for one that starts with New.
SeqApps == {[callers |-> {"p1"}, fns |-> PlainFns, args |-> a, pre |-> NoFn] :
                a \in {<<>>, <<QueueArg>>}}

ConcApps == {[callers |-> Procs, fns |-> u, args |-> <<QueueArg>>, pre |-> NoFn] :
                u \in {{"err", "void"}, {"err", "val"}}}

\* An application that has run for a while: p1 has registered the async
\* handler "once" and has published one message more than its queue holds;
\* the worker has taken the first and is inside the handler, the others fill
\* the queue. p1 and p2 go on from there, p2 with a handler of another type.
FullApps == {[callers |-> Procs, fns |-> {"val"}, args |-> <<>>, pre |-> "once"]}

Apps == SeqApps \cup ConcApps

\* The capacity of the channel subscribe makes for an async handler.
QueueCap == defaultAsyncHandlerQueueSize

\* What a running application has done before the run starts: the handler
\* records, the Publish calls and their params.
PreHandlers(a) ==
    IF a.pre = NoFn THEN <<>> ELSE <<[Handler |-> a.pre, isAsync |-> TRUE, cap |-> QueueCap]>>

PrePublished(a) == IF a.pre = NoFn THEN 0 ELSE QueueCap + 1

PreParams(a) == [i \in 1..PrePublished(a) |-> <<Ctx(i), Msg(In(a.pre)[2], i)>>]

\* An application whose goroutines register handlers of one type, sync and
\* async, while they publish messages of that type.
SnapshotApps == {[callers |-> Procs, fns |-> {"ok"}, args |-> <<>>, pre |-> NoFn]}

\* The handler records an application may come to have in one run.
MaxHandlersOf(a) ==
    IF a \in SnapshotApps THEN MaxSnapshotHandlers
    ELSE IF a.pre = NoFn THEN MaxHandlers
    ELSE Len(PreHandlers(a)) + MaxLateHandlers

\* The Publish calls an application may make in one run.
MaxPublishOf(a) == IF a \in SnapshotApps THEN MaxSnapshotPublish ELSE MaxPublish

\* The state after New(args...), or the state of the running application.
InitOf(apps) ==
    /\ app \in apps
    /\ queueSize = New(app.args)
    /\ hs = PreHandlers(app)
    /\ lock = None
    /\ iter = [p \in Procs |-> NoIter]
    /\ pc = [p \in Procs |-> "idle"]
    /\ arg = [p \in Procs |-> NoFn]
    /\ pend = [p \in Procs |-> 0]
    /\ todo = [p \in Procs |-> <<>>]
    /\ crashed = FALSE
    /\ invoked = [p \in Procs |-> <<>>]
    /\ npub = PrePublished(app)
    /\ IF app.pre = NoFn
       THEN /\ queue = <<>>
            /\ items = newHandlers
            /\ key = [p \in Procs |-> ""]
            /\ params = [p \in Procs |-> <<>>]
            /\ result = [p \in Procs |-> None]
            /\ working = <<>>
            /\ log = <<>>
            /\ done = <<>>
            /\ sent = <<>>
       ELSE LET k == TypeString(In(app.pre)[2])
                prm == PreParams(app)
            IN /\ queue = <<Tail(prm)>>
               /\ items = (k :> <<1>>)
               /\ key = [p \in Procs |-> IF p = "p1" THEN k ELSE ""]
               /\ params = [p \in Procs |-> IF p = "p1" THEN prm[Len(prm)] ELSE <<>>]
               /\ result = [p \in Procs |-> IF p = "p1" THEN Nil ELSE None]
               /\ working = <<Head(prm)>>
               /\ log = <<<<Head(prm)>>>>
               /\ done = <<<<>>>>
               /\ sent = <<prm>>

Init == InitOf(Apps)

\* ------------------------------------------------------------ variants
\* Variants of the code that the properties below must tell from the code.

\* A sync phase that takes every handler of the item, async ones too.
SelectedAll(phase, value) ==
    IF phase = "AsyncRange"
    THEN SelectSeq(value, LAMBDA h : hs[h].isAsync)
    ELSE value

\* A push that hands the message to the worker itself, as on an unbuffered
\* channel: it waits until the worker has finished what came before.
PushWaits(p) ==
    /\ ~crashed
    /\ pc[p] = "AsyncLoop"
    /\ LET h == Head(todo[p])
       IN /\ queue[h] = <<>> /\ working[h] = <<>>
          /\ queue' = [queue EXCEPT ![h] = Append(@, params[p])]
          /\ sent' = [sent EXCEPT ![h] = Append(@, params[p])]
    /\ todo' = [todo EXCEPT ![p] = Tail(@)]
    /\ pc' = [pc EXCEPT ![p] = IF Tail(todo[p]) = <<>> THEN "AsyncRange" ELSE @]
    /\ UNCHANGED <<app, queueSize, done, hs, items, lock, iter, key, arg, pend, params, result,
                   working, crashed, log, invoked, npub>>

\* A sync phase that starts the handler and goes on without waiting for it
\* to return.
SyncCallDetached(p) ==
    /\ ~crashed
    /\ pc[p] = "SyncLoop"
    /\ LET h == Head(todo[p])
       IN /\ log' = [log EXCEPT ![h] = Append(@, params[p])]
          /\ invoked' = [invoked EXCEPT ![p] = Append(@, h)]
    /\ todo' = [todo EXCEPT ![p] = Tail(@)]
    /\ pc' = [pc EXCEPT ![p] = IF Tail(todo[p]) = <<>> THEN "SyncRange" ELSE @]
    /\ UNCHANGED <<app, queueSize, done, hs, queue, items, lock, iter, key, arg, pend, params,
                   result, working, crashed, sent, npub>>

\* A send that gives the worker a context of its own in place of the
\* caller's.
ChanSendBackground(q, v) == Append(q, <<Ctx(0), v[2]>>)

\* A push that gives up when the queue is full, as a select with a default
\* case would.
PushOrDrop(p) ==
    /\ ~crashed
    /\ pc[p] = "AsyncLoop"
    /\ LET h == Head(todo[p])
       IN IF Len(queue[h]) < hs[h].cap
          THEN /\ queue' = [queue EXCEPT ![h] = Append(@, params[p])]
               /\ sent' = [sent EXCEPT ![h] = Append(@, params[p])]
          ELSE UNCHANGED <<queue, sent>>
    /\ todo' = [todo EXCEPT ![p] = Tail(@)]
    /\ pc' = [pc EXCEPT ![p] = IF Tail(todo[p]) = <<>> THEN "AsyncRange" ELSE @]
    /\ UNCHANGED <<app, queueSize, done, hs, items, lock, iter, key, arg, pend, params, result,
                   working, crashed, log, invoked, npub>>

\* An Add that stores a list of its own making, as two unlocked appends that
\* read the same old list would: what the key held is lost.
AddItemFresh(m, k, h) == [x \in DOMAIN m \cup {k} |-> IF x = k THEN <<h>> ELSE m[x]]

\* A receive that takes the value that has waited least.
ChanRecvLast(q) == q[Len(q)]

\* ------------------------------------------------------------ Subscribe
validateHandler(fn) ==
    IF Kind(fn) # "func" THEN ErrNotFunc(Kind(fn))
    ELSE IF Len(In(fn)) < 2 THEN ErrArgs
    ELSE IF TypeString(In(fn)[1]) # "context.Context" THEN ErrFirstArg
    ELSE Nil

\* subscribe, to the call of handlers.Add: validate; build the handler and,
\* for an async one, its queue and its worker.
subscribe(p, fn, isAsync) ==
    /\ ~crashed
    /\ pc[p] = "idle"
    /\ arg' = [arg EXCEPT ![p] = fn]
    /\ params' = [params EXCEPT ![p] = <<>>]
    /\ invoked' = [invoked EXCEPT ![p] = <<>>]
    /\ IF validateHandler(fn) # Nil
       THEN /\ result' = [result EXCEPT ![p] = validateHandler(fn)]
            /\ key' = [key EXCEPT ![p] = ""]
            /\ UNCHANGED <<hs, queue, working, log, done, sent, pc, pend>>
       ELSE /\ Len(hs) < MaxHandlersOf(app)
            /\ hs' = Append(hs, [Handler |-> fn, isAsync |-> isAsync,
                                 cap |-> IF isAsync THEN QueueCap ELSE 0])
            /\ queue' = Append(queue, <<>>)
            /\ working' = Append(working, <<>>)
            /\ log' = Append(log, <<>>)
            /\ done' = Append(done, <<>>)
            /\ sent' = Append(sent, <<>>)
            /\ key' = [key EXCEPT ![p] = TypeString(In(fn)[2])]
            /\ pend' = [pend EXCEPT ![p] = Len(hs) + 1]
            /\ pc' = [pc EXCEPT ![p] = "Add"]
            /\ result' = [result EXCEPT ![p] = None]
    /\ UNCHANGED <<app, queueSize, items, lock, iter, todo, crashed, npub>>

Subscribe(p) == \E fn \in app.fns : subscribe(p, fn, FALSE)

SubscribeAsync(p) == \E fn \in app.fns : subscribe(p, fn, TRUE)

\* A variant: a Must call that hands the error back to the caller and does not panic.
mustReturn(p, fn) ==
    /\ ~crashed
    /\ pc[p] = "idle"
    /\ arg' = [arg EXCEPT ![p] = fn]
    /\ params' = [params EXCEPT ![p] = <<>>]
    /\ invoked' = [invoked EXCEPT ![p] = <<>>]
    /\ key' = [key EXCEPT ![p] = ""]
    /\ result' = [result EXCEPT ![p] = validateHandler(fn)]
    /\ UNCHANGED <<app, queueSize, done, hs, queue, items, lock, iter, pc, pend, todo, working,
                   crashed, log, sent, npub>>

\* if err := e.subscribe(fn, isAsync); err != nil { panic(err) }, when
\* subscribe returns an error: subscribe has changed nothing.
mustPanic(p, fn) ==
    /\ ~crashed
    /\ pc[p] = "idle"
    /\ arg' = [arg EXCEPT ![p] = fn]
    /\ params' = [params EXCEPT ![p] = <<>>]
    /\ invoked' = [invoked EXCEPT ![p] = <<>>]
    /\ key' = [key EXCEPT ![p] = ""]
    /\ result' = [result EXCEPT ![p] = PanicWith(validateHandler(fn))]
    /\ UNCHANGED <<app, queueSize, done, hs, queue, items, lock, iter, pc, pend, todo, working,
                   crashed, log, sent, npub>>

MustSubscribe(p) ==
    \E fn \in app.fns :
        IF validateHandler(fn) # Nil THEN mustPanic(p, fn) ELSE subscribe(p, fn, FALSE)

MustSubscribeAsync(p) ==
    \E fn \in app.fns :
        IF validateHandler(fn) # Nil THEN mustPanic(p, fn) ELSE subscribe(p, fn, TRUE)

\* cm.items[key] = append(cm.items[key], value)
AddItem(m, k, h) ==
    [x \in DOMAIN m \cup {k} |->
        IF x = k THEN Append(IF k \in DOMAIN m THEN m[k] ELSE <<>>, h) ELSE m[x]]

\* handlers.Add under the lock, and subscribe's return nil.
Add(p) ==
    /\ ~crashed
    /\ pc[p] = "Add"
    /\ lock = None
    /\ items' = AddItem(items, key[p], pend[p])
    /\ pc' = [pc EXCEPT ![p] = "idle"]
    /\ pend' = [pend EXCEPT ![p] = 0]
    /\ result' = [result EXCEPT ![p] = Nil]
    /\ UNCHANGED <<app, queueSize, done, hs, queue, lock, iter, key, arg, params, todo, working,
                   crashed, log, sent, invoked, npub>>

\* ------------------------------------------------------------ Publish
\* Publish is called: msgTypeName := reflect.TypeOf(msg).String()
PublishCall(p) ==
    /\ ~crashed
    /\ pc[p] = "idle"
    /\ npub < PrePublished(app) + MaxPublishOf(app)
    /\ \E t \in MsgTypes :
          /\ params' = [params EXCEPT ![p] = <<Ctx(npub + 1), Msg(t, npub + 1)>>]
          /\ key' = [key EXCEPT ![p] = TypeString(t)]
    /\ npub' = npub + 1
    /\ pc' = [pc EXCEPT ![p] = "Get"]
    /\ result' = [result EXCEPT ![p] = None]
    /\ invoked' = [invoked EXCEPT ![p] = <<>>]
    /\ todo' = [todo EXCEPT ![p] = <<>>]
    /\ arg' = [arg EXCEPT ![p] = NoFn]
    /\ UNCHANGED <<app, queueSize, done, hs, queue, items, lock, iter, pend, working, crashed,
                   log, sent>>

\* handlers.Get's second result: value, ok := cm.items[key]
HandlersGet(m, k) == k \in DOMAIN m

\* handlers.Get under the lock; ErrHandlerNotFound, or on to the first
\* range over handlers.Iter().
Get(p) ==
    /\ ~crashed
    /\ pc[p] = "Get"
    /\ lock = None
    /\ IF HandlersGet(items, key[p])
       THEN /\ pc' = [pc EXCEPT ![p] = "AsyncRange"]
            /\ iter' = [iter EXCEPT ![p] = [st |-> "lockwait", rest |-> {}]]
            /\ UNCHANGED result
       ELSE /\ pc' = [pc EXCEPT ![p] = "idle"]
            /\ result' = [result EXCEPT ![p] = ErrHandlerNotFound]
            /\ UNCHANGED iter
    /\ UNCHANGED <<app, queueSize, done, hs, queue, items, lock, key, arg, pend, params, todo,
                   working, crashed, log, sent, invoked, npub>>

\* Iter's goroutine takes the lock and starts to range over the map.
IterLock(p) ==
    /\ ~crashed
    /\ iter[p].st = "lockwait"
    /\ lock = None
    /\ lock' = p
    /\ iter' = [iter EXCEPT ![p] = [st |-> "send", rest |-> DOMAIN items]]
    /\ UNCHANGED <<app, queueSize, done, hs, queue, items, pc, key, arg, pend, params, todo, result,
                   working, crashed, log, sent, invoked, npub>>

\* Iter's goroutine has sent every item: close(c) and the deferred Unlock.
IterClose(p) ==
    /\ ~crashed
    /\ iter[p].st = "send"
    /\ iter[p].rest = {}
    /\ lock' = None
    /\ iter' = [iter EXCEPT ![p] = [st |-> "closed", rest |-> {}]]
    /\ UNCHANGED <<app, queueSize, done, hs, queue, items, pc, key, arg, pend, params, todo, result,
                   working, crashed, log, sent, invoked, npub>>

IsAsync(h) == hs[h].isAsync

IsSync(h) == ~hs[h].isAsync

\* The handlers of a received item that the loop of this phase acts on.
Selected(phase, value) ==
    IF phase = "AsyncRange" THEN SelectSeq(value, IsAsync) ELSE SelectSeq(value, IsSync)

LoopOf(phase) == IF phase = "AsyncRange" THEN "AsyncLoop" ELSE "SyncLoop"

\* The range loop receives the next item that Iter's goroutine sends (the
\* map's iteration order is any order) and compares its key.
RangeRecv(p) ==
    /\ ~crashed
    /\ pc[p] \in {"AsyncRange", "SyncRange"}
    /\ iter[p].st = "send"
    /\ \E k \in iter[p].rest :
          /\ iter' = [iter EXCEPT ![p].rest = @ \ {k}]
          /\ LET sel == IF k = key[p] THEN Selected(pc[p], items[k]) ELSE <<>>
             IN /\ todo' = [todo EXCEPT ![p] = sel]
                /\ pc' = [pc EXCEPT ![p] = IF sel = <<>> THEN @ ELSE LoopOf(@)]
    /\ UNCHANGED <<app, queueSize, done, hs, queue, items, lock, key, arg, pend, params, result,
                   working, crashed, log, sent, invoked, npub>>

\* The channel is closed: the first range ends and the second begins with a
\* new Iter(); the second ends and Publish returns nil.
RangeEnd(p) ==
    /\ ~crashed
    /\ pc[p] \in {"AsyncRange", "SyncRange"}
    /\ iter[p].st = "closed"
    /\ IF pc[p] = "AsyncRange"
       THEN /\ pc' = [pc EXCEPT ![p] = "SyncRange"]
            /\ iter' = [iter EXCEPT ![p] = [st |-> "lockwait", rest |-> {}]]
            /\ UNCHANGED result
       ELSE /\ pc' = [pc EXCEPT ![p] = "idle"]
            /\ iter' = [iter EXCEPT ![p] = NoIter]
            /\ result' = [result EXCEPT ![p] = Nil]
    /\ UNCHANGED <<app, queueSize, done, hs, queue, items, lock, key, arg, pend, params, todo,
                   working, crashed, log, sent, invoked, npub>>

\* A send on a buffered channel puts the value behind those waiting in it.
ChanSend(q, v) == Append(q, v)

\* handler.queue <- params: blocks while the queue is full.
Push(p) ==
    /\ ~crashed
    /\ pc[p] = "AsyncLoop"
    /\ LET h == Head(todo[p])
       IN /\ Len(queue[h]) < hs[h].cap
          /\ queue' = [queue EXCEPT ![h] = ChanSend(@, params[p])]
          /\ sent' = [sent EXCEPT ![h] = Append(@, params[p])]
    /\ todo' = [todo EXCEPT ![p] = Tail(@)]
    /\ pc' = [pc EXCEPT ![p] = IF Tail(todo[p]) = <<>> THEN "AsyncRange" ELSE @]
    /\ UNCHANGED <<app, queueSize, done, hs, items, lock, iter, key, arg, pend, params, result,
                   working, crashed, log, invoked, npub>>

\* reflect.Value.Call panics when the arguments do not fit the function.
CallPanics(fn, args) ==
    \/ Len(args) # Len(In(fn))
    \/ In(fn)[1] # "Context"
    \/ args[2].type # In(fn)[2]

\* Publish is left by a return or by a panic: the range loop is abandoned with
\* its Iter goroutine where it is.
Leave(p, res) ==
    /\ pc' = [pc EXCEPT ![p] = "idle"]
    /\ result' = [result EXCEPT ![p] = res]
    /\ todo' = [todo EXCEPT ![p] = <<>>]

\* handler.Handler.Call(params), to the handler's body.
SyncCall(p) ==
    /\ ~crashed
    /\ pc[p] = "SyncLoop"
    /\ LET h == Head(todo[p])
       IN IF CallPanics(hs[h].Handler, params[p])
          THEN /\ Leave(p, Panic)
               /\ UNCHANGED <<log, invoked>>
          ELSE /\ pc' = [pc EXCEPT ![p] = "InCall"]
               /\ log' = [log EXCEPT ![h] = Append(@, params[p])]
               /\ invoked' = [invoked EXCEPT ![p] = Append(@, h)]
               /\ UNCHANGED <<result, todo>>
    /\ UNCHANGED <<app, queueSize, done, hs, queue, items, lock, iter, key, arg, pend, params,
                   working, crashed, sent, npub>>

\* The body of handler h, invoked and not yet returned, can run to its
\* return: it does not wait for ever, and the Publish call of a body that
\* calls the bus gets the lock for its handlers.Get (which finds no handler
\* and unlocks).
CanReturn(h) ==
    /\ ~Blocks(hs[h].Handler, Len(log[h]))
    /\ Reenters(hs[h].Handler) => lock = None

\* The handler returns: result[0].Interface() is looked at, an error ends
\* the chain.
SyncReturn(p) ==
    /\ ~crashed
    /\ pc[p] = "InCall"
    /\ CanReturn(Head(todo[p]))
    /\ done' = [done EXCEPT ![Head(todo[p])] = Append(@, params[p])]
    /\ LET fn == hs[Head(todo[p])].Handler
       IN IF Len(Out(fn)) = 0 THEN Leave(p, Panic)
          ELSE IF Returns(fn) # Nil THEN Leave(p, Returns(fn))
          ELSE /\ todo' = [todo EXCEPT ![p] = Tail(@)]
               /\ pc' = [pc EXCEPT ![p] =
                            IF Tail(todo[p]) = <<>> THEN "SyncRange" ELSE "SyncLoop"]
               /\ UNCHANGED result
    /\ UNCHANGED <<app, queueSize, hs, queue, items, lock, iter, key, arg, pend, params,
                   working, crashed, log, sent, invoked, npub>>

\* ------------------------------------------------------------ workers
\* A receive from a channel takes the value that has waited longest.
ChanRecv(q) == Head(q)

\* A variant: a handler with more than one worker, the next message is taken
\* while the handler is still running with the one before.
WorkerRecvAgain(h) ==
    /\ ~crashed
    /\ hs[h].isAsync
    /\ queue[h] # <<>>
    /\ queue' = [queue EXCEPT ![h] = Tail(@)]
    /\ IF CallPanics(hs[h].Handler, ChanRecv(queue[h]))
       THEN /\ crashed' = TRUE
            /\ UNCHANGED <<working, log>>
       ELSE /\ working' = [working EXCEPT ![h] = ChanRecv(queue[h])]
            /\ log' = [log EXCEPT ![h] = Append(@, ChanRecv(queue[h]))]
            /\ UNCHANGED crashed
    /\ UNCHANGED <<app, queueSize, done, hs, items, lock, iter, pc, key, arg, pend, params, todo,
                   result, sent, invoked, npub>>

\* for params := range handler.queue { handler.Handler.Call(params) }
WorkerRecv(h) ==
    /\ ~crashed
    /\ hs[h].isAsync
    /\ working[h] = <<>>
    /\ queue[h] # <<>>
    /\ queue' = [queue EXCEPT ![h] = Tail(@)]
    /\ IF CallPanics(hs[h].Handler, ChanRecv(queue[h]))
       THEN /\ crashed' = TRUE
            /\ UNCHANGED <<working, log>>
       ELSE /\ working' = [working EXCEPT ![h] = ChanRecv(queue[h])]
            /\ log' = [log EXCEPT ![h] = Append(@, ChanRecv(queue[h]))]
            /\ UNCHANGED crashed
    /\ UNCHANGED <<app, queueSize, done, hs, items, lock, iter, pc, key, arg, pend, params, todo,
                   result, sent, invoked, npub>>

\* The handler returns to the worker, which drops what it returned.
WorkerReturn(h) ==
    /\ ~crashed
    /\ working[h] # <<>>
    /\ CanReturn(h)
    /\ working' = [working EXCEPT ![h] = <<>>]
    /\ done' = [done EXCEPT ![h] = Append(@, working[h])]
    /\ UNCHANGED <<app, queueSize, hs, queue, items, lock, iter, pc, key, arg, pend, params,
                   todo, result, crashed, log, sent, invoked, npub>>

\* ------------------------------------------------------------ specification
Next ==
    \/ \E p \in app.callers : Subscribe(p)
    \/ \E p \in app.callers : SubscribeAsync(p)
    \/ \E p \in app.callers : MustSubscribe(p)
    \/ \E p \in app.callers : MustSubscribeAsync(p)
    \/ \E p \in app.callers : Add(p)
    \/ \E p \in app.callers : PublishCall(p)
    \/ \E p \in app.callers : Get(p)
    \/ \E p \in app.callers : IterLock(p)
    \/ \E p \in app.callers : IterClose(p)
    \/ \E p \in app.callers : RangeRecv(p)
    \/ \E p \in app.callers : RangeEnd(p)
    \/ \E p \in app.callers : Push(p)
    \/ \E p \in app.callers : SyncCall(p)
    \/ \E p \in app.callers : SyncReturn(p)
    \/ \E h \in DOMAIN hs : WorkerRecv(h)
    \/ \E h \in DOMAIN hs : WorkerReturn(h)

Spec == Init /\ [][Next]_vars

\* The runs of the application whose queue is full.
FullSpec == InitOf(FullApps) /\ [][Next]_vars

\* Go's scheduler runs every goroutine that can run: a caller inside a call of
\* the bus, an Iter goroutine and a worker each take their next step. When a
\* caller makes its next call is up to the application.
Fairness ==
    /\ \A p \in Procs :
          /\ WF_vars(Add(p)) /\ WF_vars(Get(p))
          /\ WF_vars(IterLock(p)) /\ WF_vars(IterClose(p))
          /\ WF_vars(RangeRecv(p)) /\ WF_vars(RangeEnd(p))
          /\ WF_vars(Push(p)) /\ WF_vars(SyncCall(p)) /\ WF_vars(SyncReturn(p))
    /\ \A h \in 1..MaxHandlers :
          /\ WF_vars(h \in DOMAIN hs /\ WorkerRecv(h))
          /\ WF_vars(h \in DOMAIN hs /\ WorkerReturn(h))

\* The applications of the runs checked for progress.
FairApps ==
    {[callers |-> {"p1"}, fns |-> {"err", "void", "three"}, args |-> <<>>, pre |-> NoFn],
     [callers |-> Procs, fns |-> {"err", "val"}, args |-> <<QueueArg>>, pre |-> NoFn]}

FairSpec == InitOf(FairApps) /\ [][Next]_vars /\ Fairness

\* The applications with a handler that calls the bus.
ReentrantApps ==
    {[callers |-> c, fns |-> {"reenter", "ok"}, args |-> <<>>, pre |-> NoFn] :
        c \in {{"p1"}, Procs}}

ReentrantSpec == InitOf(ReentrantApps) /\ [][Next]_vars /\ Fairness

\* An application that has run for a while with the async handler "never":
\* the worker is inside its first invocation, the messages published since
\* fill the queue.
StalledApps == {[callers |-> Procs, fns |-> {"val"}, args |-> <<>>, pre |-> "never"]}

StalledSpec == InitOf(StalledApps) /\ [][Next]_vars /\ Fairness

\* The runs of the application that registers while it publishes.
SnapshotSpec == InitOf(SnapshotApps) /\ [][Next]_vars

\* ------------------------------------------------------------ properties
Range(q) == {q[i] : i \in DOMAIN q}

IsPrefix(a, b) == Len(a) <= Len(b) /\ SubSeq(b, 1, Len(a)) = a

\* The number of the Publish call that params came with.
IdOf(prm) == prm[2].id

\* Caller p's last call was a Publish and it is over.
Returned(p) == pc[p] = "idle" /\ params[p] # <<>> /\ result[p] # None

\* What handler h's body returns.
Ret(h) == Returns(hs[h].Handler)

\* Handler h was registered for the type of the message of these params.
RegisteredFor(h, prm) == In(hs[h].Handler)[2] = prm[2].type

\* The sync handlers registered under p's message type, in registration order.
SyncHandlers(p) == SelectSeq(items[key[p]], IsSync)

\* Handler h has the shape the README documents: a func of a context.Context
\* and a message, with an error result or none.
Documented(h) == Len(In(hs[h].Handler)) = 2 /\ In(hs[h].Handler)[1] = "Context"

\* C1: when every handler found for the message is of the documented shape
\* and registered for the message's type, Publish invokes the sync handlers
\* in registration order; the first one that returns an error is the last one
\* invoked and its error is what Publish returns; when none returns an error
\* all of them are invoked and Publish returns nil.
C1_SyncHandlersInOrder ==
    \A p \in app.callers :
        (/\ Returned(p) /\ result[p] # ErrHandlerNotFound
         /\ \A h \in Range(items[key[p]]) : Documented(h) /\ RegisteredFor(h, params[p])) =>
            LET n == Len(invoked[p])
                failed == {i \in 1..n : Ret(invoked[p][i]) # Nil}
            IN /\ IsPrefix(invoked[p], SyncHandlers(p))
               /\ failed # {} => (failed = {n} /\ result[p] = Ret(invoked[p][n]))
               /\ failed = {} => /\ result[p] = Nil
                                 /\ app.callers = {p} => invoked[p] = SyncHandlers(p)

\* The handlers in the registry that were registered for the type of the
\* message of these params.
HandlersOfType(prm) ==
    {h \in DOMAIN hs : RegisteredFor(h, prm) /\ \E k \in DOMAIN items : h \in Range(items[k])}

\* C2: a Publish of a message whose type has no registered handler returns
\* ErrHandlerNotFound, whatever is registered for other types, and a Publish
\* that returns ErrHandlerNotFound has invoked no handler and pushed its
\* message onto no queue.
C2_HandlerNotFound ==
    \A p \in app.callers :
        Returned(p) =>
            /\ HandlersOfType(params[p]) = {} => result[p] = ErrHandlerNotFound
            /\ result[p] = ErrHandlerNotFound =>
                  /\ invoked[p] = <<>>
                  /\ \A h \in DOMAIN hs :
                        params[p] \notin Range(sent[h]) \cup Range(log[h]) \cup Range(queue[h])

\* C3: when Publish returns a sync handler's error, the message is on the
\* queue of every async handler registered for its type, and each of these
\* handlers is eventually invoked with it.
C3_AsyncRunsWhenSyncFails ==
    /\ [](\A p \in app.callers :
            (Returned(p) /\ result[p] = ErrSome /\ app.callers = {p}) =>
                \A h \in Range(items[key[p]]) :
                    (IsAsync(h) /\ RegisteredFor(h, params[p])) => params[p] \in Range(sent[h]))
    /\ \A n \in 1..MaxPublish, h \in 1..MaxHandlers :
          (\E p \in app.callers :
              /\ Returned(p) /\ result[p] = ErrSome /\ IdOf(params[p]) = n
              /\ h \in DOMAIN hs /\ RegisteredFor(h, params[p])
              /\ params[p] \in Range(sent[h]))
          ~> (h \in DOMAIN log /\ \E i \in DOMAIN log[h] : IdOf(log[h][i]) = n)

\* C4: once Publish has found handlers for its message, every async handler
\* registered for the message's type is eventually invoked with it, and no
\* handler is invoked twice with the message of one Publish.
C4_AsyncExactlyOnce ==
    /\ [](\A h \in DOMAIN hs : \A i, j \in DOMAIN log[h] :
            IsAsync(h) /\ IdOf(log[h][i]) = IdOf(log[h][j]) => i = j)
    /\ \A n \in 1..MaxPublish, h \in 1..MaxHandlers :
          (\E p \in app.callers :
              /\ pc[p] = "AsyncRange" /\ iter[p].st = "lockwait" /\ IdOf(params[p]) = n
              /\ h \in Range(items[key[p]]) /\ IsAsync(h) /\ RegisteredFor(h, params[p]))
          ~> (h \in DOMAIN log /\ \E i \in DOMAIN log[h] : IdOf(log[h][i]) = n)

\* The registry's lock keeps p from going on.
WaitsForLock(p) == lock # None /\ (pc[p] = "Get" \/ iter[p].st = "lockwait")

\* The queue p is about to push onto is full.
WaitsForQueue(p) ==
    pc[p] = "AsyncLoop" /\ Len(queue[Head(todo[p])]) >= hs[Head(todo[p])].cap

\* C5: a caller inside Publish never waits for a worker to take or to finish
\* a message: it, or the Iter goroutine of its range loop, can take its next
\* step unless the registry's lock is held or the queue it pushes onto is full.
C5_PublishNeverWaitsForWorker ==
    \A p \in app.callers :
        (pc[p] \notin {"idle", "Add"} /\ ~crashed) =>
            \/ ENABLED (Get(p) \/ IterLock(p) \/ IterClose(p) \/ RangeRecv(p)
                        \/ RangeEnd(p) \/ Push(p) \/ SyncCall(p) \/ SyncReturn(p))
            \/ WaitsForLock(p)
            \/ WaitsForQueue(p)

\* C5's case: Publish has returned nil and its message still waits on the
\* queue of every handler of its type, all of them async.
C5_Witness ==
    \E p \in app.callers :
        /\ Returned(p) /\ result[p] = Nil
        /\ \A h \in Range(items[key[p]]) :
              IsAsync(h) /\ params[p] \in Range(queue[h]) /\ log[h] = <<>>

\* C6: an async handler is invoked with the messages of its queue in the
\* order they were pushed, none left out and none twice; with one caller that
\* is the order of the Publish calls.
C6_PerHandlerFifo ==
    \A h \in DOMAIN hs :
        IsAsync(h) =>
            /\ IsPrefix(log[h], sent[h])
            /\ ~crashed => sent[h] = log[h] \o queue[h]
            /\ Cardinality(app.callers) = 1 =>
                  \A i, j \in DOMAIN sent[h] : i < j => IdOf(sent[h][i]) < IdOf(sent[h][j])

\* C6's case: two async handlers of one type have each been invoked with the
\* messages of two Publish calls.
C6_Witness ==
    \E h1, h2 \in DOMAIN hs :
        /\ h1 # h2 /\ IsAsync(h1) /\ IsAsync(h2)
        /\ \E k \in DOMAIN items : {h1, h2} \subseteq Range(items[k])
        /\ Len(log[h1]) = 2 /\ log[h2] = log[h1]
        /\ IdOf(log[h1][1]) # IdOf(log[h1][2])

\* C7: Publish returns nil when the handlers it finds for the message are
\* all async, whatever they return; it calls no async handler itself; an error it returns is the
\* one the last sync handler it invoked returned, and when it returns nil
\* every sync handler it invoked returned nil.
C7_AsyncErrorsSwallowed ==
    \A p \in app.callers :
        (Returned(p) /\ result[p] # ErrHandlerNotFound) =>
            /\ SyncHandlers(p) = <<>> => result[p] = Nil
            /\ \A i \in DOMAIN invoked[p] : IsSync(invoked[p][i])
            /\ result[p] \notin {Nil, Panic} =>
                  /\ invoked[p] # <<>>
                  /\ result[p] = Ret(invoked[p][Len(invoked[p])])
            /\ result[p] = Nil => \A i \in DOMAIN invoked[p] : Ret(invoked[p][i]) = Nil

\* C7's case: an async handler has run with the message and has returned an
\* error, and Publish has returned nil.
C7_Witness ==
    \E p \in app.callers, h \in DOMAIN hs :
        /\ Returned(p) /\ result[p] = Nil
        /\ IsAsync(h) /\ Ret(h) # Nil
        /\ params[p] \in Range(log[h]) /\ working[h] = <<>>

\* A handler function that is not a func with at least two parameters, the
\* first a context.Context.
Malformed(fn) == Kind(fn) # "func" \/ Len(In(fn)) < 2 \/ In(fn)[1] # "Context"

InvalidHandlerErrors == {ErrArgs, ErrFirstArg} \cup {ErrNotFunc(Kind(fn)) : fn \in Fns}

\* C8: a Subscribe or SubscribeAsync call with a malformed handler returns an
\* error at once and changes neither the handler records, the queues, the
\* workers nor the registry; no handler record ever holds a malformed
\* function.
C8_InvalidHandlerRejected ==
    /\ [](\A h \in DOMAIN hs : ~Malformed(hs[h].Handler))
    /\ [][\A p \in Procs :
            (/\ arg'[p] # NoFn /\ Malformed(arg'[p])
             /\ <<arg[p], result[p]>> # <<arg'[p], result'[p]>>) =>
                /\ result'[p] \in InvalidHandlerErrors
                /\ pc'[p] = "idle"
                /\ UNCHANGED <<hs, queue, working, items, lock>>]_vars

\* C9: the queue of every async handler has the capacity the bus was built
\* with.
C9_QueueCapacityIsConfigured ==
    \A h \in DOMAIN hs : IsAsync(h) => hs[h].cap = queueSize

\* C10: a handler is handed, on its queue or in a call, only messages whose
\* type is the type of its second parameter.
C10_ExactTypeRouting ==
    /\ \A h \in DOMAIN hs : \A prm \in Range(sent[h]) \cup Range(log[h]) :
          prm[2].type = In(hs[h].Handler)[2]
    /\ \A p \in app.callers : \A i \in DOMAIN todo[p] :
          params[p][2].type = In(hs[todo[p][i]].Handler)[2]

\* C11: when a Publish call is over, every sync handler it invoked has
\* returned from the invocation with its message; while the call runs, only
\* the handler invoked last can still be running.
C11_SyncHandlersCompleteBeforeReturn ==
    \A p \in app.callers :
        /\ Returned(p) =>
              \A i \in DOMAIN invoked[p] : params[p] \in Range(done[invoked[p][i]])
        /\ params[p] # <<>> =>
              \A i \in DOMAIN invoked[p] :
                  \/ params[p] \in Range(done[invoked[p][i]])
                  \/ i = Len(invoked[p]) /\ pc[p] = "InCall"

\* C11's case: Publish has returned nil after two sync handlers, and both
\* have returned from their invocation with its message.
C11_Witness ==
    \E p \in app.callers :
        /\ Returned(p) /\ result[p] = Nil
        /\ Len(invoked[p]) = 2
        /\ \A i \in DOMAIN invoked[p] : params[p] \in Range(done[invoked[p][i]])

\* The params a handler was handed, on its queue or in a call.
Handed(h) == Range(sent[h]) \cup Range(queue[h]) \cup Range(log[h]) \cup Range(done[h])

\* C12: whatever a handler is handed is the context and the message of one
\* Publish call, the two that were passed together; while that call runs, or
\* is the caller's last, it is what the caller passed.
C12_ParamsPassedUnchanged ==
    \A h \in DOMAIN hs : \A prm \in Handed(h) :
        /\ IdOf(prm) \in 1..npub
        /\ prm = <<Ctx(IdOf(prm)), Msg(prm[2].type, IdOf(prm))>>
        /\ \A p \in app.callers :
              (params[p] # <<>> /\ IdOf(params[p]) = IdOf(prm)) => prm = params[p]

\* C12's case: a sync handler and an async handler have both been invoked
\* with what one Publish call passed.
C12_Witness ==
    \E p \in app.callers, h1, h2 \in DOMAIN hs :
        /\ Returned(p) /\ IsSync(h1) /\ IsAsync(h2)
        /\ params[p] \in Range(done[h1]) /\ params[p] \in Range(done[h2])

\* C13: a queue never holds more than its capacity; nothing pushed is lost
\* or overwritten: what was pushed is what the handler was invoked with
\* followed by what waits; and a Publish that is over has pushed its message
\* onto the queue of every async handler that was registered for it before
\* the call, full or not.
C13_BackpressureWithoutDrops ==
    /\ \A h \in DOMAIN hs :
          IsAsync(h) =>
              /\ Len(queue[h]) <= hs[h].cap
              /\ ~crashed => sent[h] = log[h] \o queue[h]
    /\ \A p \in app.callers : \A h \in DOMAIN PreHandlers(app) :
          (/\ Returned(p) /\ result[p] # ErrHandlerNotFound
           /\ h \in Range(items[key[p]]) /\ IdOf(params[p]) > PrePublished(app)) =>
              \E i \in DOMAIN sent[h] : sent[h][i] = params[p]

\* C13's case: the queue was full when Publish was called; the worker has
\* taken one message since, Publish has pushed its own behind the others and
\* has returned, and the queue is full again.
C13_Witness ==
    \E p \in app.callers :
        /\ Returned(p) /\ result[p] = Nil
        /\ IdOf(params[p]) = PrePublished(app) + 1
        /\ Len(queue[1]) = hs[1].cap
        /\ queue[1][Len(queue[1])] = params[p]
        /\ Len(log[1]) = 2

\* Handler h declares no result.
IsVoid(h) == Out(hs[h].Handler) = <<>>

\* C14: a Publish that has invoked a sync handler without a result, all the
\* handlers it found being of the documented shape and registered for the
\* message's type, is not left by a panic; it has gone on to the handlers
\* after it unless one returned an error, and returns nil when none did.
C14_VoidSyncHandlerSucceeds ==
    \A p \in app.callers :
        (/\ Returned(p)
         /\ \E i \in DOMAIN invoked[p] : IsVoid(invoked[p][i])
         /\ \A h \in Range(items[key[p]]) : Documented(h) /\ RegisteredFor(h, params[p])) =>
            /\ result[p] # Panic
            /\ (\A i \in DOMAIN invoked[p] : Ret(invoked[p][i]) = Nil) =>
                  /\ result[p] = Nil
                  /\ app.callers = {p} => invoked[p] = SyncHandlers(p)

\* A call of p is left by the panic of a Must call: the value is the error
\* validateHandler has for the handler, and neither the handler records, the
\* queues, the workers nor the registry have changed.
Aborted(p) ==
    /\ validateHandler(arg'[p]) # Nil
    /\ result'[p] = PanicWith(validateHandler(arg'[p]))
    /\ pc'[p] = "idle"
    /\ UNCHANGED <<hs, queue, working, items, lock>>

HoldsLockBlocked(q) == lock = q /\ iter[q].st = "send" /\ iter[q].rest # {}

\* User code runs in p's Publish: a sync handler is being invoked.
InHandler(p) == pc[p] = "InCall"

\* C16: while a sync handler runs inside Publish, or Publish waits to push
\* onto a full queue, no goroutine holds the registry's lock blocked on a
\* send. (The moment between the receive of the last item and the Unlock of
\* the Iter goroutine is not counted.)
C16_LockNotHeldInUserCode ==
    \A p \in app.callers :
        (InHandler(p) \/ WaitsForQueue(p)) => \A q \in app.callers : ~HoldsLockBlocked(q)

\* C17: a sync handler that calls Publish on the same bus while Publish is
\* invoking it always completes, whatever keys the registry holds and in
\* whatever order they are iterated.
C17_ReentrantHandlerCompletes ==
    \A p \in Procs :
        (pc[p] = "InCall" /\ Reenters(hs[Head(todo[p])].Handler)) ~> (pc[p] # "InCall")

\* p's last call was a Publish that has returned nil or an error.
PublishReturned(p) == Returned(p) /\ result[p] \in {Nil, ErrHandlerNotFound, ErrSome}

\* C18: after a Publish call has returned, with nil, ErrHandlerNotFound or a
\* sync handler's error, the Iter goroutine it started is not left blocked
\* with the registry's lock held.
C18_LockFreeAfterPublish ==
    \A p \in app.callers : PublishReturned(p) => ~HoldsLockBlocked(p)

\* The invocation of handler h that is running never returns.
Stalled(h) == working[h] # <<>> /\ Blocks(hs[h].Handler, Len(log[h]))

\* The keys under which a stalled handler is registered.
StalledKeys == {k \in DOMAIN items : \E h \in Range(items[k]) : Stalled(h)}

\* C19: while an async handler's invocation never returns, a Subscribe call
\* that has a handler to add returns, and a Publish call of a message whose
\* key has no stalled handler returns.
C19_StallStaysInItsQueue ==
    \A p \in Procs :
        /\ (pc[p] = "Add") ~> (pc[p] = "idle")
        /\ (pc[p] = "Get" /\ key[p] \notin StalledKeys) ~> (pc[p] = "idle")

\* The handlers p's Publish call has pushed its message to or invoked.
Dispatched(p) == {h \in DOMAIN hs : params[p] \in Range(sent[h])} \cup Range(invoked[p])

\* The handler lists the key has had: items[k] only grows at its end.
ListsOf(k) == {SubSeq(items[k], 1, n) : n \in 0..Len(items[k])}

\* C20: the handlers that a Publish call which returned nil has pushed to
\* and invoked are the handler list of the key as it stood at one point in
\* time.
C20_OneSnapshotPerPublish ==
    \A p \in app.callers :
        (Returned(p) /\ result[p] = Nil) =>
            \E l \in ListsOf(key[p]) : Dispatched(p) = Range(l)

\* Handler a stands before handler b in the list l.
Before(l, a, b) == \E i, j \in DOMAIN l : i < j /\ l[i] = a /\ l[j] = b

\* Handler h was in the key's list when p's Publish call began: p is the
\* application's only goroutine, or h stands before a handler that the call
\* has invoked.
KnownToCall(p, h) ==
    \/ app.callers = {p}
    \/ \E s \in Range(invoked[p]) : Before(items[key[p]], h, s)

\* C21: once a Publish call has invoked a sync handler, it has pushed its
\* message onto the queue of every async handler registered for the
\* message's type that was in the list when the call began, wherever the
\* async handler stands in the list.
C21_AsyncPhaseBeforeSyncPhase ==
    \A p \in app.callers :
        (params[p] # <<>> /\ invoked[p] # <<>>) =>
            \A h \in Range(items[key[p]]) :
                (IsAsync(h) /\ RegisteredFor(h, params[p]) /\ KnownToCall(p, h)) =>
                    params[p] \in Range(sent[h])

\* The places of handler h in the registry m: the key and the index.
Places(m, h) ==
    {ki \in UNION {{<<k, i>> : i \in DOMAIN m[k]} : k \in DOMAIN m} : m[ki[1]][ki[2]] = h}

\* p's Subscribe or SubscribeAsync returns nil in this step.
Subscribed(p) == pc[p] = "Add" /\ pc'[p] = "idle" /\ result'[p] = Nil

\* This step puts p's handler, one made from the fn of p's call, at the end
\* of the list of the fn's key and leaves the other keys' lists as they are.
AppendsOwn(p) ==
    LET k == TypeString(In(arg[p])[2])
    IN /\ hs[pend[p]].Handler = arg[p]
       /\ DOMAIN items' = DOMAIN items \cup {k}
       /\ items'[k] = Append(IF k \in DOMAIN items THEN items[k] ELSE <<>>, pend[p])
       /\ \A x \in DOMAIN items \ {k} : items'[x] = items[x]

\* C22: every step keeps each key's list as a prefix of what it becomes; the
\* registry changes only in the step in which a Subscribe or SubscribeAsync
\* returns nil, and that step appends the call's one handler to the list of
\* its own key and changes no other list; every handler whose call has
\* returned is in the registry exactly once, one whose call has not is not
\* in it.
C22_RegistryAppendOnly ==
    [][/\ \A k \in DOMAIN items : k \in DOMAIN items' /\ IsPrefix(items[k], items'[k])
       /\ \A p \in app.callers : Subscribed(p) => AppendsOwn(p)
       /\ items' # items => \E p \in app.callers : Subscribed(p)
       /\ (items' # items \/ hs' # hs) =>
              \A h \in DOMAIN hs' :
                  Cardinality(Places(items', h)) =
                      IF \E p \in app.callers : pend'[p] = h THEN 0 ELSE 1]_vars

\* C22's case: both goroutines have registered a handler under one key, and
\* the key's list holds the two.
C22_Witness ==
    /\ app.callers = Procs
    /\ \A p \in Procs : pc[p] = "idle" /\ arg[p] # NoFn /\ result[p] = Nil
    /\ \E k \in DOMAIN items : Len(items[k]) = 2

\* The invocations of handler h that have begun and have not returned.
Running(h) == Len(log[h]) - Len(done[h])

\* An async handler is run by its one worker only: at most one invocation
\* runs, the one the worker is in; what it was invoked with came off its
\* queue in the order it was pushed; no caller has invoked it in-line; and
\* the worker is there to take the next message as soon as the handler
\* exists.
WorkerOnly(h) ==
    /\ Running(h) = IF working[h] = <<>> THEN 0 ELSE 1
    /\ IsPrefix(log[h], sent[h])
    /\ \A p \in app.callers :
          /\ h \notin Range(invoked[p])
          /\ pc[p] \in {"SyncLoop", "InCall"} => h \notin Range(todo[p])
    /\ (~crashed /\ queue[h] # <<>> /\ working[h] = <<>>) => ENABLED WorkerRecv(h)

\* A sync handler is run by Publish only: nothing was ever pushed for it, no
\* worker runs it, and an invocation that has not returned is the one a
\* caller is in.
InlineOnly(h) ==
    /\ queue[h] = <<>> /\ sent[h] = <<>> /\ working[h] = <<>>
    /\ Running(h) = Cardinality({p \in app.callers : pc[p] = "InCall" /\ Head(todo[p]) = h})
    /\ \A p \in app.callers : pc[p] = "AsyncLoop" => h \notin Range(todo[p])

\* A step that invokes handler h is a step of its worker when h is async and
\* a step of a caller inside Publish when h is sync.
InvokedBy(h) ==
    IF IsAsync(h)
    THEN pc' = pc /\ working[h] = <<>> /\ working'[h] = Head(queue[h]) /\ queue'[h] = Tail(queue[h])
    ELSE \E p \in app.callers :
            pc[p] = "SyncLoop" /\ pc'[p] = "InCall" /\ Head(todo[p]) = h /\ working' = working

\* C23: an async handler is invoked by its one worker only, one invocation
\* at a time and never in-line on a caller of Publish; a sync handler is
\* invoked in-line by Publish only and never put on a queue.
C23_OneWorkerPerAsyncHandler ==
    /\ [](\A h \in DOMAIN hs : IF IsAsync(h) THEN WorkerOnly(h) ELSE InlineOnly(h))
    /\ [][\A h \in DOMAIN hs : log'[h] # log[h] => InvokedBy(h)]_vars

\* C23's case: a worker has run its async handler twice, and a caller has
\* run a sync handler in-line.
C23_Witness ==
    \E a, b \in DOMAIN hs :
        /\ IsAsync(a) /\ Len(done[a]) = 2
        /\ IsSync(b) /\ Len(done[b]) >= 1

\* Handler h takes a context.Context first and declares a result.
TakesContext(h) == In(hs[h].Handler)[1] = "Context" /\ ~IsVoid(h)

\* Every handler under p's key is one that Publish was meant to find for p's
\* message: registered for its type, with a context.Context and a result.
FoundFits(p) ==
    key[p] \in DOMAIN items =>
        \A h \in Range(items[key[p]]) : RegisteredFor(h, params[p]) /\ TakesContext(h)

\* Every async handler takes a context.Context and declares a result, and
\* was only ever pushed messages of the type it was registered for.
QueuesFit ==
    \A h \in DOMAIN hs :
        IsAsync(h) => TakesContext(h) /\ \A prm \in Range(sent[h]) : RegisteredFor(h, prm)

\* C24: a Publish whose handlers were all accepted by Subscribe for the
\* message's type, with any number of parameters, ends with a value, nil or
\* a handler's error, and not with a panic; and no worker that was handed
\* only messages of its handler's type panics.
C24_AcceptedHandlersDispatch ==
    /\ \A p \in app.callers : (Returned(p) /\ FoundFits(p)) => result[p] # Panic
    /\ QueuesFit => ~crashed

====
